---- MODULE Spec2Model ----
(***************************************************************************)
(* A model of newspaper_generator.py: the DailyNewspaper pipeline.         *)
(*                                                                         *)
(* One process run is asyncio.run(newspaper.generate_newspaper()).  The    *)
(* four adapters are coroutines handed to asyncio.gather; the event loop   *)
(* is modelled by its FIFO ready queue.  get_tasks, get_calendar_events    *)
(* and get_news contain no await, so each runs to completion in one loop   *)
(* callback; get_weather suspends on its HTTP request.  The token store,   *)
(* the newspapers/ directory and the clock outlive a run.                  *)
(***************************************************************************)
EXTENDS Integers, Sequences, FiniteSets, TLC

\* ------------------------------------------------------------------ bounds
\* Calendar days are 0..MaxDay.
MaxDay == 1
\* The configured rss_feeds list has at most MaxFeeds urls.
MaxFeeds == 2
\* A parsed feed has at most MaxEntries entries.
MaxEntries == 6

\* ------------------------------------------------------- program constants
\* feed.entries[:5]
FEED_TOP == 5

\* ------------------------------------------------------------------ values
Adapters == <<"weather", "tasks", "events", "news">>
AdapterSet == {"weather", "tasks", "events", "news"}
Days == 0..MaxDay

\* Python None / an empty list, and the payloads the providers hand back.
None == <<>>
WeatherPayload == <<"forecast">>
TaskPayload == <<"task">>
EventPayload == <<"event">>

Min(a, b) == IF a < b THEN a ELSE b

\* A feed url: parse raises (ok = FALSE) or yields n entries.
Feed(ok, n) == [ok |-> ok, n |-> n]
FeedChoices == {Feed(FALSE, 0)} \cup {Feed(TRUE, n) : n \in 0..MaxEntries}
RECURSIVE FeedListsOfLen(_)
FeedListsOfLen(k) ==
    IF k = 0 THEN {<<>>}
    ELSE {Append(s, f) : s \in FeedListsOfLen(k - 1), f \in FeedChoices}
FeedLists == UNION {FeedListsOfLen(k) : k \in 0..MaxFeeds}
\* The feed list of the full pipeline: a broken feed followed by one with
\* more entries than get_news takes.
PipelineFeedLists == {<<Feed(FALSE, 0), Feed(TRUE, MaxEntries)>>}

\* Entry e of the i-th configured feed.
Entry(i, e) == <<i, e>>
\* feed.entries of the i-th feed
Entries(i, feed) == [e \in 1..feed.n |-> Entry(i, e)]

\* ------------------------------------------------------------- credentials
NoCreds == [kind |-> "none", expired |-> FALSE, refresh_token |-> FALSE, origin |-> "none"]
Cred(expired, rt, origin) ==
    [kind |-> "cred", expired |-> expired, refresh_token |-> rt, origin |-> origin]
\* secrets/token.pickle: missing, not unpicklable, or a pickled credential
StoreAbsent == [kind |-> "absent", expired |-> FALSE, refresh_token |-> FALSE, origin |-> "none"]
StoreCorrupt == [kind |-> "corrupt", expired |-> FALSE, refresh_token |-> FALSE, origin |-> "none"]
StoredCreds == {Cred(FALSE, TRUE, "stored"), Cred(TRUE, TRUE, "stored"), Cred(TRUE, FALSE, "stored")}
InitialStores == {StoreAbsent, StoreCorrupt} \cup StoredCreds

\* creds.valid, and the test of the refresh branch
Valid(c) == c.kind = "cred" /\ ~c.expired
CanRefresh(c) == c.kind = "cred" /\ c.expired /\ c.refresh_token

\* ------------------------------------------------------------------ files
NoFile == <<"absent">>
FileOf(chunks) == <<"file", chunks>>

VARIABLES
    clock,        \* the calendar day datetime.now() reports
    fs,           \* newspapers/<day>.md for each day
    tokenStore,   \* secrets/token.pickle
    config,       \* self.config of this run
    mainpc,       \* where generate_newspaper is
    running,      \* the coroutine holding the thread between suspensions
    ready,        \* the event loop's ready queue
    ntodo,        \* handles left in the current loop iteration
    task,         \* the four gathered tasks
    outer,        \* the future asyncio.gather returns
    cpc,          \* where get_calendar_events / get_google_credentials is
    creds,        \* the local creds of get_google_credentials
    data,         \* the merged record
    markdown,     \* the rendered text
    outDay,       \* the day in output_path
    errors,       \* what self.logger.error was called for
    ioLog,        \* the credential, render and write steps of this run
    fsAtStart,    \* fs when the run started
    storeAtStart, \* tokenStore when the run started
    exitCode      \* the process's exit code

vars == <<clock, fs, tokenStore, config, mainpc, running, ready, ntodo, task,
          outer, cpc, creds, data, markdown, outDay, errors, ioLog,
          fsAtStart, storeAtStart, exitCode>>

persistent == <<clock, fs, tokenStore>>


\* ---------------------------------------------------------------- get_news
\* entries[:k]
Take(s, k) == SubSeq(s, 1, Min(k, Len(s)))

\* The loop with the try around it instead of inside it: a feed that fails
\* to parse ends get_news with the exception.
NewsLoopBody_Propagates(acc, i, feed) ==
    IF feed.ok
    THEN [acc EXCEPT !.items = acc.items \o Take(Entries(i, feed), FEED_TOP)]
    ELSE [acc EXCEPT !.raised = TRUE]

\* One pass of the for loop of get_news over the i-th url: the try body
\* (parse, extend by the top entries) and the except clause (log, go on).
NewsLoopBody(acc, i, feed) ==
    IF feed.ok
    THEN [acc EXCEPT !.items = acc.items \o Take(Entries(i, feed), FEED_TOP)]
    ELSE [acc EXCEPT !.logged = TRUE]

RECURSIVE NewsLoop(_, _, _)
NewsLoop(acc, i, feeds) ==
    IF i > Len(feeds) \/ acc.raised THEN acc
    ELSE NewsLoop(NewsLoopBody(acc, i, feeds[i]), i + 1, feeds)

get_news(cfg) ==
    NewsLoop([items |-> <<>>, logged |-> FALSE, raised |-> FALSE], 1, cfg.rss_feeds)

\* Every configured feed failed to parse: the adapter fetched nothing.
NewsFailed(cfg) ==
    /\ cfg.rss_feeds # <<>>
    /\ \A i \in 1..Len(cfg.rss_feeds) : ~cfg.rss_feeds[i].ok

\* --------------------------------------------------------------- get_tasks
\* What get_tasks can end with: [raised, val, failed, logged].
Outcome(raised, val, failed, logged) ==
    [raised |-> raised, val |-> val, failed |-> failed, logged |-> logged]

get_tasks(cfg) ==
    IF ~cfg.todoist_token
    THEN \* TodoistAPI(self.config['todoist_token']) is outside the try
         {Outcome(TRUE, None, TRUE, FALSE)}
    ELSE {Outcome(FALSE, TaskPayload, FALSE, FALSE),   \* return tasks
          Outcome(FALSE, <<>>, TRUE, TRUE)}            \* except: log, return []

\* ------------------------------------------------------------- get_weather
\* The request of get_weather completes: the payload, or the error raised.
get_weather_response ==
    {Outcome(FALSE, WeatherPayload, FALSE, FALSE),
     Outcome(TRUE, None, TRUE, FALSE)}

\* ------------------------------------------------------------------- tasks
NewTask == [st |-> "new", val |-> None, failed |-> FALSE]
Settled(a) == task[a].st \in {"done", "failed"}
Handle(kind, who) == [kind |-> kind, who |-> who]

\* A coroutine ends: its task is done, or failed with the exception, and
\* the task's done callback (gather's) is scheduled.
TaskOf(o) ==
    [st |-> IF o.raised THEN "failed" ELSE "done", val |-> o.val, failed |-> o.failed]

Finish(a, o, queue) ==
    /\ task' = [task EXCEPT ![a] = TaskOf(o)]
    /\ ready' = Append(queue, Handle("cb", a))

\* ------------------------------------------------------------------- Init
InitRun ==
    /\ mainpc = "idle"
    /\ config = [todoist_token |-> TRUE, rss_feeds |-> <<>>]
    /\ running = "none"
    /\ ready = <<>>
    /\ ntodo = 0
    /\ task = [a \in AdapterSet |-> NewTask]
    /\ outer = [st |-> "pending", nfinished |-> 0]
    /\ cpc = "none"
    /\ creds = NoCreds
    /\ data = None
    /\ markdown = None
    /\ outDay = -1
    /\ errors = {}
    /\ ioLog = <<>>
    /\ exitCode = -1

Init ==
    /\ clock = 0
    /\ fs = [d \in Days |-> NoFile]
    /\ tokenStore \in InitialStores
    /\ fsAtStart = fs
    /\ storeAtStart = tokenStore
    /\ InitRun

\* ------------------------------------------------ the clock, between runs
Tick ==
    /\ clock < MaxDay
    /\ clock' = clock + 1
    /\ UNCHANGED <<fs, tokenStore, config, mainpc, running, ready, ntodo, task,
                   outer, cpc, creds, data, markdown, outDay, errors, ioLog,
                   fsAtStart, storeAtStart, exitCode>>

\* The stored access token's lifetime ends before the next run.
TokenExpires ==
    /\ mainpc \in {"idle", "exited"}
    /\ Valid(tokenStore)
    /\ tokenStore' = [tokenStore EXCEPT !.expired = TRUE]
    /\ UNCHANGED <<clock, fs, config, mainpc, running, ready, ntodo, task, outer,
                   cpc, creds, data, markdown, outDay, errors, ioLog, fsAtStart,
                   storeAtStart, exitCode>>

\* --------------------------------------------------------------- the run
\* __main__: DailyNewspaper() loads the config, asyncio.run starts
\* generate_newspaper, which hands the four coroutines to asyncio.gather
\* and suspends on the future it returns.
StartRun ==
    /\ mainpc \in {"idle", "exited"}
    /\ \E tok \in BOOLEAN, feeds \in PipelineFeedLists :
          config' = [todoist_token |-> tok, rss_feeds |-> feeds]
    /\ mainpc' = "gather"
    /\ running' = "none"
    /\ ready' = [i \in 1..Len(Adapters) |-> Handle("step", Adapters[i])]
    /\ ntodo' = 0
    /\ task' = [a \in AdapterSet |-> NewTask]
    /\ outer' = [st |-> "pending", nfinished |-> 0]
    /\ cpc' = "none"
    /\ creds' = NoCreds
    /\ data' = None
    /\ markdown' = None
    /\ outDay' = -1
    /\ errors' = {}
    /\ ioLog' = <<>>
    /\ exitCode' = -1
    /\ fsAtStart' = fs
    /\ storeAtStart' = tokenStore
    /\ UNCHANGED persistent

\* The loop is between callbacks of generate_newspaper's await.
LoopIdle == mainpc = "gather" /\ running = "none"

\* One iteration of the event loop starts: it polls for I/O, then runs the
\* handles that are ready now.  The weather response has arrived:
PollIO ==
    /\ LoopIdle /\ ntodo = 0
    /\ task["weather"].st = "inflight"
    /\ task' = [task EXCEPT !["weather"].st = "woken"]
    /\ ready' = Append(ready, Handle("resume", "weather"))
    /\ ntodo' = Len(ready')
    /\ UNCHANGED <<persistent, config, mainpc, running, outer, cpc, creds, data,
                   markdown, outDay, errors, ioLog, fsAtStart, storeAtStart, exitCode>>

\* ... or it has not, and there is something to run.
PollNone ==
    /\ LoopIdle /\ ntodo = 0
    /\ ready # <<>>
    /\ ntodo' = Len(ready)
    /\ UNCHANGED <<persistent, config, mainpc, running, ready, task, outer, cpc,
                   creds, data, markdown, outDay, errors, ioLog, fsAtStart,
                   storeAtStart, exitCode>>

Next1(h) == LoopIdle /\ ntodo > 0 /\ ready # <<>> /\ Head(ready) = h

\* get_weather up to its first suspension: the request is sent.
WeatherStart ==
    /\ Next1(Handle("step", "weather"))
    /\ task' = [task EXCEPT !["weather"].st = "inflight"]
    /\ ready' = Tail(ready)
    /\ ntodo' = ntodo - 1
    /\ UNCHANGED <<persistent, config, mainpc, running, outer, cpc, creds, data,
                   markdown, outDay, errors, ioLog, fsAtStart, storeAtStart, exitCode>>

\* get_weather resumes with the response, or with the error, which it
\* does not catch.
WeatherSettle ==
    /\ Next1(Handle("resume", "weather"))
    /\ \E o \in get_weather_response : Finish("weather", o, Tail(ready))
    /\ ntodo' = ntodo - 1
    /\ UNCHANGED <<persistent, config, mainpc, running, outer, cpc, creds, data,
                   markdown, outDay, errors, ioLog, fsAtStart, storeAtStart, exitCode>>

\* get_tasks: no await inside, one callback of the loop.
StepTasks ==
    /\ Next1(Handle("step", "tasks"))
    /\ \E o \in get_tasks(config) :
          /\ Finish("tasks", o, Tail(ready))
          /\ errors' = IF o.logged THEN errors \cup {"tasks"} ELSE errors
    /\ ntodo' = ntodo - 1
    /\ UNCHANGED <<persistent, config, mainpc, running, outer, cpc, creds, data,
                   markdown, outDay, ioLog, fsAtStart, storeAtStart, exitCode>>

\* get_news: no await inside, one callback of the loop.
StepNews ==
    /\ Next1(Handle("step", "news"))
    /\ LET r == get_news(config)
       IN /\ Finish("news", Outcome(r.raised, r.items, NewsFailed(config), r.logged), Tail(ready))
          /\ errors' = IF r.logged THEN errors \cup {"rss"} ELSE errors
    /\ ntodo' = ntodo - 1
    /\ UNCHANGED <<persistent, config, mainpc, running, outer, cpc, creds, data,
                   markdown, outDay, ioLog, fsAtStart, storeAtStart, exitCode>>


\* ---------------------------------------------------- get_calendar_events
\* The refresh branch left out: every credential that is not valid goes to
\* the manual flow.
AfterLoad_NoRefresh(c) ==
    IF Valid(c) THEN "query" ELSE "prompt"

\* Where get_google_credentials goes once creds is loaded.
AfterLoad(c) ==
    IF Valid(c) THEN "query"
    ELSE IF CanRefresh(c) THEN "refresh"
    ELSE "prompt"

\* get_calendar_events starts; it has no await, so it keeps the thread
\* until it returns.
CalStart ==
    /\ Next1(Handle("step", "events"))
    /\ running' = "calendar"
    /\ cpc' = "load"
    /\ ready' = Tail(ready)
    /\ ntodo' = ntodo - 1
    /\ UNCHANGED <<persistent, config, mainpc, task, outer, creds, data, markdown,
                   outDay, errors, ioLog, fsAtStart, storeAtStart, exitCode>>

\* except Exception: log, return []
CalendarFail ==
    /\ errors' = errors \cup {"calendar"}
    /\ Finish("events", Outcome(FALSE, <<>>, TRUE, TRUE), ready)
    /\ running' = "none"
    /\ cpc' = "none"

\* get_google_credentials: read secrets/token.pickle if it exists, then
\* test creds.  pickle.load of a corrupt file raises.
CredLoad ==
    /\ running = "calendar" /\ cpc = "load"
    /\ ioLog' = Append(ioLog, "cred.read")
    /\ IF tokenStore.kind = "corrupt"
       THEN /\ CalendarFail
            /\ UNCHANGED creds
       ELSE /\ creds' = IF tokenStore.kind = "absent" THEN NoCreds ELSE tokenStore
            /\ cpc' = AfterLoad(creds')
            /\ UNCHANGED <<running, task, ready, errors>>
    /\ UNCHANGED <<persistent, config, mainpc, ntodo, outer, data, markdown,
                   outDay, fsAtStart, storeAtStart, exitCode>>

\* creds.refresh(Request()): the credential is refreshed in place, or the
\* token endpoint's error is raised.
CredRefresh ==
    /\ running = "calendar" /\ cpc = "refresh"
    /\ ioLog' = Append(ioLog, "cred.refresh")
    /\ \/ /\ creds' = Cred(FALSE, TRUE, "refreshed")
          /\ cpc' = "save"
          /\ UNCHANGED <<running, task, ready, errors>>
       \/ /\ CalendarFail
          /\ UNCHANGED creds
    /\ UNCHANGED <<persistent, config, mainpc, ntodo, outer, data, markdown,
                   outDay, fsAtStart, storeAtStart, exitCode>>

\* The manual flow: print the url, input() the code, fetch_token.
CredPrompt ==
    /\ running = "calendar" /\ cpc = "prompt"
    /\ ioLog' = Append(ioLog, "cred.prompt")
    /\ \/ /\ creds' = Cred(FALSE, TRUE, "flow")
          /\ cpc' = "save"
          /\ UNCHANGED <<running, task, ready, errors>>
       \/ /\ CalendarFail
          /\ UNCHANGED creds
    /\ UNCHANGED <<persistent, config, mainpc, ntodo, outer, data, markdown,
                   outDay, fsAtStart, storeAtStart, exitCode>>

\* pickle.dump(creds, token)
CredSave ==
    /\ running = "calendar" /\ cpc = "save"
    /\ ioLog' = Append(ioLog, "cred.write")
    /\ tokenStore' = creds
    /\ cpc' = "query"
    /\ UNCHANGED <<clock, fs, config, mainpc, running, ready, ntodo, task, outer,
                   creds, data, markdown, outDay, errors, fsAtStart, storeAtStart,
                   exitCode>>

\* build(...), events().list(...).execute(): the items, or an error.
CalQuery ==
    /\ running = "calendar" /\ cpc = "query"
    /\ \/ /\ Finish("events", Outcome(FALSE, EventPayload, FALSE, FALSE), ready)
          /\ running' = "none"
          /\ cpc' = "none"
          /\ UNCHANGED errors
       \/ CalendarFail
    /\ UNCHANGED <<persistent, config, mainpc, ntodo, outer, creds, data, markdown,
                   outDay, ioLog, fsAtStart, storeAtStart, exitCode>>

\* ---------------------------------------------------------- asyncio.gather
\* The result set as soon as one child has finished.
GatherDone_First(nfinished) == nfinished >= 1

\* gather's result is set once every child has finished.
GatherDone(nfinished) == nfinished = Len(Adapters)

\* What the done callback of child a does to the future gather returned
\* (return_exceptions is False): the first exception is set on it at once.
GatherOutcome(a, o) ==
    LET n == o.nfinished + 1 IN
    IF o.st # "pending" THEN [o EXCEPT !.nfinished = n]
    ELSE IF task[a].st = "failed" THEN [st |-> "exception", nfinished |-> n]
    ELSE IF GatherDone(n) THEN [st |-> "result", nfinished |-> n]
    ELSE [o EXCEPT !.nfinished = n]

GatherCallback ==
    /\ \E a \in AdapterSet :
          /\ Next1(Handle("cb", a))
          /\ outer' = GatherOutcome(a, outer)
    /\ ready' = IF outer.st = "pending" /\ outer'.st # "pending"
                THEN Append(Tail(ready), Handle("wake", "main"))
                ELSE Tail(ready)
    /\ ntodo' = ntodo - 1
    /\ UNCHANGED <<persistent, config, mainpc, running, task, cpc, creds, data,
                   markdown, outDay, errors, ioLog, fsAtStart, storeAtStart, exitCode>>

\* ------------------------------------------------------ generate_newspaper
LongDate(day) == <<"%A, %B %d, %Y", day>>
IsoDate(day) == <<"%Y-%m-%d", day>>
DayOf(date) == date[2]

MergedRecord(now, results) ==
    [date |-> LongDate(now),
     weather |-> results["weather"].val,
     tasks |-> results["tasks"].val,
     events |-> results["events"].val,
     news |-> results["news"].val]

\* template.render(**data)
Render(d) == <<"newspaper.md.j2", d>>

\* The file opened with 'a': the text is added to what is there.
WriteFile_Append(old, text) ==
    IF old = NoFile THEN FileOf(<<text>>) ELSE FileOf(Append(old[2], text))

\* open(output_path, 'w'); f.write(markdown)
WriteFile(old, text) == FileOf(<<text>>)

\* except Exception: log, raise
MainExcept ==
    /\ errors' = errors \cup {"newspaper"}
    /\ mainpc' = "raised"
    /\ running' = "none"
    /\ exitCode' = 1

\* The await of gather resumes generate_newspaper: with the exception set
\* on the future, or with the four results.
MainWake ==
    /\ Next1(Handle("wake", "main"))
    /\ ready' = Tail(ready)
    /\ ntodo' = ntodo - 1
    /\ IF outer.st = "exception"
       THEN MainExcept
       ELSE /\ mainpc' = "merge"
            /\ running' = "main"
            /\ UNCHANGED <<errors, exitCode>>
    /\ UNCHANGED <<persistent, config, task, outer, cpc, creds, data, markdown,
                   outDay, ioLog, fsAtStart, storeAtStart>>

\* data = {...}: the first read of the clock
MainMerge ==
    /\ running = "main" /\ mainpc = "merge"
    /\ data' = MergedRecord(clock, task)
    /\ mainpc' = "render"
    /\ UNCHANGED <<persistent, config, running, ready, ntodo, task, outer, cpc,
                   creds, markdown, outDay, errors, ioLog, fsAtStart, storeAtStart,
                   exitCode>>

\* generate_markdown(data) returns the text
MainRender ==
    /\ running = "main" /\ mainpc = "render"
    /\ ioLog' = Append(ioLog, "render")
    /\ markdown' = Render(data)
    /\ mainpc' = "write"
    /\ UNCHANGED <<persistent, config, running, ready, ntodo, task, outer, cpc,
                   creds, data, outDay, errors, fsAtStart, storeAtStart, exitCode>>

\* The rendering error logged and swallowed: the run goes on to the writer
\* with no text.
MainRenderFail_Swallowed ==
    /\ running = "main" /\ mainpc = "render"
    /\ ioLog' = Append(ioLog, "render.failed")
    /\ errors' = errors \cup {"newspaper"}
    /\ markdown' = None
    /\ mainpc' = "write"
    /\ UNCHANGED <<persistent, config, running, ready, ntodo, task, outer, cpc,
                   creds, data, outDay, fsAtStart, storeAtStart, exitCode>>

\* generate_markdown(data) raises (template missing, rendering error)
MainRenderFail ==
    /\ running = "main" /\ mainpc = "render"
    /\ ioLog' = Append(ioLog, "render.failed")
    /\ MainExcept
    /\ UNCHANGED <<persistent, config, ready, ntodo, task, outer, cpc, creds, data,
                   markdown, outDay, fsAtStart, storeAtStart>>

\* output_path from the second read of the clock; open, write, return
MainWrite ==
    /\ running = "main" /\ mainpc = "write"
    /\ ioLog' = Append(ioLog, "write")
    /\ outDay' = DayOf(IsoDate(clock))
    /\ fs' = [fs EXCEPT ![outDay'] = WriteFile(fs[outDay'], markdown)]
    /\ mainpc' = "done"
    /\ running' = "none"
    /\ exitCode' = 0
    /\ UNCHANGED <<clock, tokenStore, config, ready, ntodo, task, outer, cpc, creds,
                   data, markdown, errors, fsAtStart, storeAtStart>>

\* open(output_path, 'w') raises (newspapers/ is not there)
MainWriteFail ==
    /\ running = "main" /\ mainpc = "write"
    /\ ioLog' = Append(ioLog, "write.failed")
    /\ outDay' = DayOf(IsoDate(clock))
    /\ MainExcept
    /\ UNCHANGED <<persistent, config, ready, ntodo, task, outer, cpc, creds, data,
                   markdown, fsAtStart, storeAtStart>>

\* asyncio.run ends: the loop is closed and what is still pending is
\* cancelled; the process exits.
Shutdown ==
    /\ mainpc \in {"done", "raised"}
    /\ mainpc' = "exited"
    /\ task' = [a \in AdapterSet |->
                  IF Settled(a) THEN task[a] ELSE [task[a] EXCEPT !.st = "cancelled"]]
    /\ ready' = <<>>
    /\ ntodo' = 0
    /\ UNCHANGED <<persistent, config, running, outer, cpc, creds, data, markdown,
                   outDay, errors, ioLog, fsAtStart, storeAtStart, exitCode>>

Next ==
    \/ Tick
    \/ TokenExpires
    \/ StartRun
    \/ PollIO
    \/ PollNone
    \/ WeatherStart
    \/ WeatherSettle
    \/ StepTasks
    \/ CalStart
    \/ CredLoad
    \/ CredRefresh
    \/ CredPrompt
    \/ CredSave
    \/ CalQuery
    \/ StepNews
    \/ GatherCallback
    \/ MainWake
    \/ MainMerge
    \/ MainRender
    \/ MainRenderFail
    \/ MainWrite
    \/ MainWriteFail
    \/ Shutdown

Spec == Init /\ [][Next]_vars

\* ------------------------------------------------ get_news, called alone
\* get_news awaited on its own, over every feed list within the bounds.
InitNews ==
    /\ clock = 0
    /\ fs = [d \in Days |-> NoFile]
    /\ tokenStore = StoreAbsent
    /\ fsAtStart = fs
    /\ storeAtStart = tokenStore
    /\ mainpc = "gather"
    /\ \E feeds \in FeedLists : config = [todoist_token |-> TRUE, rss_feeds |-> feeds]
    /\ running = "none"
    /\ ready = <<Handle("step", "news")>>
    /\ ntodo = 1
    /\ task = [a \in AdapterSet |-> NewTask]
    /\ outer = [st |-> "pending", nfinished |-> 0]
    /\ cpc = "none"
    /\ creds = NoCreds
    /\ data = None
    /\ markdown = None
    /\ outDay = -1
    /\ errors = {}
    /\ ioLog = <<>>
    /\ exitCode = -1

NextNews == StepNews

SpecNews == InitNews /\ [][NextNews]_vars


\* ================================================================= claims
InLog(x) == \E i \in 1..Len(ioLog) : ioLog[i] = x
\* generate_newspaper is past its await of gather.
PastJoin == mainpc \in {"merge", "render", "write", "done", "raised", "exited"}
\* A run is under way or has just ended; the process has not exited yet.
InRun == mainpc \in {"gather", "merge", "render", "write", "done", "raised"}
RunEnded == mainpc \in {"done", "raised"}
AllSettled == \A a \in AdapterSet : Settled(a)
Fields == {"date", "weather", "tasks", "events", "news"}
\* get_google_credentials has returned or raised.
CredManagerDone == InLog("cred.read") /\ cpc \in {"query", "none"}

\* C1: when exactly one adapter's fetch failed and the other three
\* succeeded, the run has built a merged record with all five fields, the
\* failing adapter's slot empty and the other slots holding what their
\* adapters returned.  (Refuted: a weather failure is raised by gather and
\* no record is built.)
C1_OneFailureStillMerges ==
    \A a \in AdapterSet :
        (/\ RunEnded
         /\ AllSettled
         /\ task[a].failed
         /\ \A b \in AdapterSet \ {a} : ~task[b].failed)
        => /\ DOMAIN data = Fields
           /\ data[a] = <<>>
           /\ \A b \in AdapterSet \ {a} : data[b] = task[b].val

\* C2: once generate_newspaper is past the fan-in, by continuing to the
\* merge or by raising, all four branches have settled with a result or a
\* failure, none still running and none cancelled.  (Refuted: gather sets
\* the first exception at once while the weather request is in flight.)
C2_JoinWaitsForAll ==
    PastJoin => AllSettled

\* C3: get_news returns without raising, and its result is the
\* concatenation, in feed-list order, of the first min(5, n) entries of
\* every parseable feed; an unparseable feed contributes nothing.
ExpectedContribution(i, feed) ==
    IF feed.ok
    THEN [e \in 1..(IF feed.n < 5 THEN feed.n ELSE 5) |-> Entry(i, e)]
    ELSE <<>>
RECURSIVE ExpectedDigest(_, _)
ExpectedDigest(feeds, k) ==
    IF k = 0 THEN <<>>
    ELSE ExpectedDigest(feeds, k - 1) \o ExpectedContribution(k, feeds[k])
C3_NewsDigest ==
    task["news"].st # "new"
    => /\ task["news"].st = "done"
       /\ task["news"].val = ExpectedDigest(config.rss_feeds, Len(config.rss_feeds))
       /\ ("rss" \in errors)
          <=> (\E i \in 1..Len(config.rss_feeds) : ~config.rss_feeds[i].ok)
C3_Witness ==
    /\ task["news"].st = "done"
    /\ \E i, j \in 1..Len(config.rss_feeds) :
          /\ i < j
          /\ ~config.rss_feeds[i].ok
          /\ config.rss_feeds[j].ok
          /\ config.rss_feeds[j].n > 5
    /\ Len(task["news"].val) = 5

C5_CorruptStoreIsNoToken ==
    (/\ InRun
     /\ storeAtStart.kind \in {"absent", "corrupt"}
     /\ Settled("events"))
    => InLog("cred.prompt")

\* C6: after a successful run the file of the output path holds exactly the
\* text that run rendered, whatever it held before, and no other day's
\* file has changed.
C6_OverwriteExactly ==
    mainpc = "done"
    => /\ markdown = Render(data)
       /\ fs[outDay] = FileOf(<<markdown>>)
       /\ \A d \in Days \ {outDay} : fs[d] = fsAtStart[d]
C6_Witness ==
    /\ mainpc = "done"
    /\ fsAtStart[outDay] # NoFile
    /\ fsAtStart[outDay] # FileOf(<<markdown>>)

\* C7: when rendering fails the error is logged and raised to the caller,
\* the writer is not executed and every output file is as it was when the
\* run started.
C7_RenderFailureWritesNothing ==
    (InRun /\ InLog("render.failed"))
    => /\ mainpc = "raised"
       /\ exitCode = 1
       /\ "newspaper" \in errors
       /\ ~InLog("write") /\ ~InLog("write.failed")
       /\ fs = fsAtStart
C7_Witness ==
    /\ mainpc = "raised"
    /\ InLog("render.failed")
    /\ \E d \in Days : fs[d] # NoFile /\ DayOf(data.date) = d

\* C8: get_tasks never ends with an exception; any failure inside it ends
\* it with an empty list, logged.  (Refuted: TodoistAPI(...) is built
\* outside the try.)
C8_TasksNeverRaises ==
    task["tasks"].st # "new"
    => /\ task["tasks"].st # "failed"
       /\ task["tasks"].failed => (task["tasks"].val = <<>> /\ "tasks" \in errors)

C10_SameDay ==
    mainpc = "done" => DayOf(data.date) = outDay

====
